---- MODULE Spec2Model ----
(***************************************************************************)
(* Model of the multi-slot monitor (crypto_monitor.py) with its trade      *)
(* store (trade_logger.py) and slot discovery (market_fetcher.py).         *)
(*                                                                         *)
(* Threads: the main thread (startup, then the WebSocket receive loop with *)
(* on_open / on_message), the slot watcher (expiry sweep and top-up), the  *)
(* market fetcher, and the wall clock.  The two threads that share the     *)
(* trade maps take one step per access of shared state.                    *)
(*                                                                         *)
(* Time is counted in hours, prices in cents.                              *)
(***************************************************************************)
EXTENDS Integers, Sequences, FiniteSets, TLC

\* ---------------------------------------------------------------- bounds
MaxSlot == 3          \* slot labels the catalog can ever offer: 1..MaxSlot
NumCryptos == 1       \* instruments per slot that the model tracks
MaxFaults == 1        \* store calls that raise and quote fetches that fail in one run
MaxBatch == 2         \* events in one inbound stream message
MaxMsgs == 1          \* stream messages delivered in one run
MaxQuote == 9         \* largest quote (yes or no price) tried on side selection
MaxFileSlot == 7      \* slot labels a markets file can hold when the refill is tried alone
MaxSec == 7           \* seconds the clock runs when the tick handler is tried alone
MaxTicks == 3         \* ticks delivered when the tick handler is tried alone
MaxBlock == 3         \* slot blocks of a markets file when the parser is tried alone
MaxInstr == 3         \* instruments of a slot when one activation is tried alone

\* ------------------------------------------------------ program constants
TRADE_AMOUNT == 3000
LIMIT_OFFSET == 5
WINDOW_SIZE == 5
MAX_CONCURRENT_SLOTS == 2
COUNT == 10
HOUR == 1
THROTTLE == 5         \* seconds between two printed ticks of one token
RETRIES == 5          \* attempts of a store operation under retry_db_op
STARTING_EQUITY == 10000000   \* $1000.00, in the unit of pnl_usd (1/100 cent)

CRYPTOS == 1..NumCryptos
Slots == 1..MaxSlot
MaxTime == MaxSlot
Sides == {"yes", "no"}
Tokens == Slots \X CRYPTOS \X Sides

\* a slot dict as parse_markets_file builds it
StartDt(s) == s * HOUR
EndDt(s) == StartDt(s) + HOUR
Markets(s) == [c \in CRYPTOS |-> [yes |-> <<s, c, "yes">>, no |-> <<s, c, "no">>]]

\* -------------------------------------------------- insertion-ordered dict
\* A Python dict: a sequence of [key, val] in insertion order.
DictKeys(d) == [i \in 1..Len(d) |-> d[i].key]
DictHas(d, k) == \E i \in 1..Len(d) : d[i].key = k
DictGet(d, k) == d[CHOOSE i \in 1..Len(d) : d[i].key = k].val
DictPut(d, k, v) ==
    IF DictHas(d, k)
      THEN [i \in 1..Len(d) |-> IF d[i].key = k THEN [key |-> k, val |-> v] ELSE d[i]]
      ELSE Append(d, [key |-> k, val |-> v])
DictPop(d, k) == SelectSeq(d, LAMBDA e : e.key # k)
KeySet(d) == {d[i].key : i \in 1..Len(d)}

RECURSIVE DictPopAll(_, _)
DictPopAll(d, ks) ==
    IF ks = <<>> THEN d ELSE DictPopAll(DictPop(d, Head(ks)), Tail(ks))

SeqToSet(s) == {s[i] : i \in 1..Len(s)}

\* ------------------------------------------------ parse / rolling window
RECURSIVE SortByStart(_)
SortByStart(S) ==
    IF S = {} THEN <<>>
    ELSE LET m == CHOOSE x \in S : \A y \in S : StartDt(x) <= StartDt(y)
         IN <<m>> \o SortByStart(S \ {m})

\* parse_markets_file: the slots of the file, sorted by start_dt
parse_markets_file(file) == SortByStart(file)

FirstN(s, n) == SubSeq(s, 1, IF Len(s) < n THEN Len(s) ELSE n)
LastN(s, n) == SubSeq(s, IF Len(s) > n THEN Len(s) - n + 1 ELSE 1, Len(s))

build_slot_queue_no_fallback(all, t) ==
    FirstN(SelectSeq(all, LAMBDA s : StartDt(s) > t), WINDOW_SIZE)
build_slot_queue_not_strict(all, t) ==
    LET upcoming == SelectSeq(all, LAMBDA s : StartDt(s) >= t)
        chosen == IF upcoming = <<>> THEN LastN(all, WINDOW_SIZE) ELSE upcoming
    IN FirstN(chosen, WINDOW_SIZE)
build_slot_queue(all, t) ==
    LET upcoming == SelectSeq(all, LAMBDA s : StartDt(s) > t)
        chosen == IF upcoming = <<>> THEN LastN(all, WINDOW_SIZE) ELSE upcoming
    IN FirstN(chosen, WINDOW_SIZE)

\* ------------------------------------------------------- side selection
WinnerIsYes_tie_no(yes_price, no_price) == yes_price > no_price
WinnerIsYes(yes_price, no_price) == yes_price >= no_price

\* one entry of the selections dict of select_winning_sides
Selection(slot, crypto, yes_price, no_price) ==
    IF WinnerIsYes(yes_price, no_price)
      THEN [token_id |-> Markets(slot)[crypto].yes, side |-> "YES",
            entry_price |-> yes_price, yes_price |-> yes_price, no_price |-> no_price]
      ELSE [token_id |-> Markets(slot)[crypto].no, side |-> "NO",
            entry_price |-> no_price, yes_price |-> yes_price, no_price |-> no_price]

\* fetched : crypto -> <<yes price, no price>>
select_winning_sides(slot, fetched) ==
    [c \in CRYPTOS |-> Selection(slot, c, fetched[c][1], fetched[c][2])]


\* ------------------------------------------------------ quote endpoint
\* <<yes price, no price>> the quote endpoint answers for one instrument:
\* the market's quotes, or 0 for fetches that failed (fetch_price).
MarketQuote(slot, crypto) ==
    IF (slot + crypto) % 2 = 0 THEN <<60, 55>> ELSE <<55, 61>>

\* the fetches of one side selection, crypto -> <<yes price, no price>>,
\* when the fetches for the instruments in failed answer 0
Fetched(slot, failed) ==
    [c \in CRYPTOS |-> IF c \in failed THEN <<0, 0>> ELSE MarketQuote(slot, c)]

\* best bids a quote update can carry (the ask is two cents above)
Bids == {58, 66}
TickAsk(bid) == bid + 2

\* ------------------------------------------------------------ the store
\* get_current_equity: the starting equity plus the pnl of all rows that are
\* not pending
RECURSIVE ResolvedPnl(_)
ResolvedPnl(db) ==
    IF db = <<>> THEN 0
    ELSE (IF Head(db).outcome # "pending" THEN Head(db).pnl_usd ELSE 0)
            + ResolvedPnl(Tail(db))

get_current_equity(db) == STARTING_EQUITY + ResolvedPnl(db)

\* open_trade: the row inserted into trades (closes counts the close_trade
\* calls that reached the row, delivered notes the best bid of the latest
\* quote update the feed delivered for the row's token, 0 before the first)
NewRow(slot, crypto, sel, shares, limit_sell, equity) ==
    [slot_label |-> slot, asset |-> crypto, side_chosen |-> sel.side,
     token_id |-> sel.token_id, entry_price |-> sel.entry_price,
     shares |-> shares, limit_sell_price |-> limit_sell,
     min_price |-> sel.entry_price, max_price |-> sel.entry_price,
     num_price_updates |-> 0,
     exit_price |-> 0, exit_reason |-> "none", pnl_usd |-> 0,
     outcome |-> "pending", closes |-> 0, delivered |-> 0,
     equity_before |-> equity, equity_after |-> 0]

Min(a, b) == IF a <= b THEN a ELSE b
Max(a, b) == IF a >= b THEN a ELSE b

record_tick_rebased(db, trade_id, bid, ask) ==
    [db EXCEPT ![trade_id] =
        [db[trade_id] EXCEPT !.entry_price = (bid + ask) \div 2,
                             !.num_price_updates = db[trade_id].num_price_updates + 1]]

\* record_tick: one more price tick of the row trade_id, and its excursion
\* statistics
record_tick(db, trade_id, bid, ask) ==
    LET row == db[trade_id]
        mid == (bid + ask) \div 2
    IN [db EXCEPT ![trade_id] =
          [row EXCEPT !.min_price = Min(row.min_price, mid),
                      !.max_price = Max(row.max_price, mid),
                      !.num_price_updates = row.num_price_updates + 1]]

\* close_trade: the UPDATE of the row trade_id; a missing row changes nothing
close_trade(db, trade_id, exit_price, exit_reason) ==
    IF trade_id \notin 1..Len(db) THEN db
    ELSE LET row == db[trade_id]
             pnl == (exit_price - row.entry_price) * row.shares
         IN [db EXCEPT ![trade_id] =
               [row EXCEPT !.exit_price = exit_price,
                           !.exit_reason = exit_reason,
                           !.pnl_usd = pnl,
                           !.outcome = IF pnl >= 0 THEN "win" ELSE "loss",
                           !.equity_after = row.equity_before + pnl,
                           !.closes = row.closes + 1]]

\* what close_trade returns: <<>> for None, else <<the result dict>>
close_trade_result(db, trade_id, exit_price, exit_reason) ==
    IF trade_id \notin 1..Len(db) THEN <<>>
    ELSE LET pnl == (exit_price - db[trade_id].entry_price) * db[trade_id].shares
         IN <<[trade_id |-> trade_id, exit_price |-> exit_price,
               exit_reason |-> exit_reason, pnl_usd |-> pnl,
               outcome |-> IF pnl >= 0 THEN "win" ELSE "loss",
               equity_after |-> db[trade_id].equity_before + pnl]>>

\* ------------------------------------------------------------ the state
VARIABLES
    now,                \* wall clock
    markets_file,       \* upcoming_markets.txt: the slot labels it holds
    all_slots,          \* parsed slots, sorted by start
    slot_queue,         \* deque of upcoming slots
    active_slots,       \* list of active slots
    prices,             \* token_id -> [bid, ask, mid]
    token_to_label,     \* dict token_id -> label
    token_to_trade,     \* dict token_id -> reference to a trade dict
    trades,             \* the trade dicts, by trade_id
    db_trades,          \* table trades of the store, by id
    connected,          \* ws_app.sock.connected
    feed_subs,          \* asset ids the feed has subscribed for this connection
    msgs_left,          \* stream messages the run may still deliver
    bg_threads_started,
    faults_left,        \* faults (store exception, failed quote) the run may still see
    pc,                 \* position of each thread
    om,                 \* locals of on_message
    sw,                 \* locals of slot_watcher_thread and close_slot_trades
    mt,                 \* locals of maintain_active_slots and activate_slot_trades
    probe               \* argument and result of a function applied on its own

vars == <<now, markets_file, all_slots, slot_queue, active_slots, prices,
          token_to_label, token_to_trade, trades, db_trades, connected,
          feed_subs, msgs_left, bg_threads_started, faults_left, pc, om, sw, mt,
          probe>>

slotVars == <<markets_file, all_slots, slot_queue, active_slots>>
mapVars == <<token_to_label, token_to_trade>>
tradeVars == <<trades, db_trades>>
wsVars == <<connected, feed_subs, msgs_left>>

Threads == {"main", "watcher"}

\* closed_before: the trades whose terminal flag was set when the message came
OmIdle == [msg |-> <<>>, trade |-> 0, closed_before |-> {}, ignored |-> 0]
SwIdle == [now |-> 0, i |-> 0, expired |-> <<>>, size |-> 0, pos |-> 0,
           remove |-> <<>>, results |-> 0, token |-> <<>>, trade |-> 0,
           last_bid |-> 0]
\* popped: the slots the top-up has taken from the queue so far
MtIdle == [now |-> 0, added |-> FALSE, slot |-> 0, selections |-> <<>>,
           c |-> 0, added_tokens |-> <<>>, popped |-> <<>>]

NoProbe == [fn |-> "none"]

Running_Init ==
    /\ now = 0
    /\ markets_file = {}
    /\ all_slots = <<>>
    /\ slot_queue = <<>>
    /\ active_slots = <<>>
    /\ prices = <<>>
    /\ token_to_label = <<>>
    /\ token_to_trade = <<>>
    /\ trades = <<>>
    /\ db_trades = <<>>
    /\ connected = FALSE
    /\ feed_subs = {}
    /\ msgs_left = MaxMsgs
    /\ bg_threads_started = FALSE
    /\ faults_left = MaxFaults
    /\ pc = [main |-> "startup", watcher |-> "off", fetcher |-> "off"]
    /\ om = OmIdle
    /\ sw = SwIdle
    /\ mt = MtIdle

Init ==
    /\ Running_Init
    /\ probe = NoProbe

Goto(th, label) == pc' = [pc EXCEPT ![th] = label]

\* the process is alive (sys.exit and an uncaught exception in main end it)
Running == pc.main \notin {"exited", "crashed"}

\* ------------------------------------------------------------ the clock
TickUpTo(last) ==
    /\ Running
    /\ now < last
    /\ now' = now + 1
    /\ UNCHANGED <<probe, slotVars, prices, mapVars, tradeVars, wsVars,
                   bg_threads_started, faults_left, pc, om, sw, mt>>

Tick == TickUpTo(MaxTime)

\* -------------------------------------------------- market_fetcher.py
\* fetch_upcoming_slots: the next COUNT hourly slots after the current hour
Candidates(t, file) == {s \in Slots : t + 1 <= s /\ s <= t + COUNT} \ file

\* what the catalog answers: it lists the hours up to some horizon
Offers(t, file) == {{s \in Candidates(t, file) : s <= k} : k \in 0..MaxSlot}

\* main, step 1 and the first reload: the file is cleared, discovery appends
\* what the catalog answers, and the queue is built from the file.
StartupFrom(offers) ==
    /\ pc.main = "startup"
    /\ \E S \in offers :
         /\ markets_file' = S
         /\ IF S = {}
              THEN /\ Goto("main", "exited")
                   /\ UNCHANGED <<all_slots, slot_queue>>
              ELSE /\ all_slots' = parse_markets_file(S)
                   /\ slot_queue' = build_slot_queue(parse_markets_file(S), now)
                   /\ Goto("main", "mt_start")
    /\ UNCHANGED <<probe, now, active_slots, prices, mapVars, tradeVars, wsVars,
                   bg_threads_started, faults_left, om, sw, mt>>

Startup == StartupFrom(Offers(now, {}))

\* fetcher_loop: discover_and_append appends the new slots of the catalog
DiscoverFrom(offers) ==
    /\ Running
    /\ pc.fetcher = "on"
    /\ \E S \in offers :
         /\ S # {}
         /\ markets_file' = markets_file \cup S
    /\ UNCHANGED <<probe, now, all_slots, slot_queue, active_slots, prices, mapVars,
                   tradeVars, wsVars, bg_threads_started, faults_left, pc,
                   om, sw, mt>>

Discover == DiscoverFrom(Offers(now, markets_file))

\* ------------------------------------------------- stream subscriptions
\* send_subscribe / send_unsubscribe: dropped unless the socket is connected
send_subscribe_unguarded(subs, ids) == subs \cup SeqToSet(ids)
send_subscribe(subs, ids) ==
    IF connected /\ ids # <<>> THEN subs \cup SeqToSet(ids) ELSE subs
send_unsubscribe(subs, ids) ==
    IF connected /\ ids # <<>> THEN subs \ SeqToSet(ids) ELSE subs

\* ------------------------------------------------- maintain_active_slots
\* where a thread continues after maintain_active_slots returns
AfterMaintain(th) == IF th = "main" THEN "ws_connect" ELSE "sleep"

\* an exception leaves maintain_active_slots: main dies of it, the slot
\* watcher catches it ([REFILL ERR]) and sleeps
AfterRefillError_uncaught(th) == "crashed"
AfterRefillError(th) == IF th = "main" THEN "crashed" ELSE "sleep"

MtRaise(th) ==
    /\ faults_left > 0
    /\ faults_left' = faults_left - 1
    /\ mt' = MtIdle
    /\ Goto(th, AfterRefillError(th))

HasCapacity_off_by_one(active) == Len(active) <= MAX_CONCURRENT_SLOTS
HasCapacity(active) == Len(active) < MAX_CONCURRENT_SLOTS

AlreadyEnded(slot, t) == EndDt(slot) <= t

\* line 498: the condition of the while loop
KeepsFilling_first_only(active, queue) == active = <<>> /\ queue # <<>>
KeepsFilling(active, queue) == HasCapacity(active) /\ queue # <<>>

\* line 490: if not slot_queue
NeedsRefill_always(queue) == TRUE
NeedsRefill(queue) == queue = <<>>

\* lines 490-496: refill the queue when it is empty (the rebuilt queue is
\* appended to it), take the time
MtStart(th) ==
    /\ pc[th] = "mt_start"
    /\ IF NeedsRefill(slot_queue)
         THEN /\ all_slots' = parse_markets_file(markets_file)
              /\ slot_queue' = slot_queue \o
                     build_slot_queue(parse_markets_file(markets_file), now)
         ELSE UNCHANGED <<all_slots, slot_queue>>
    /\ mt' = [MtIdle EXCEPT !.now = now]
    /\ Goto(th, "mt_loop")
    /\ UNCHANGED <<probe, now, markets_file, active_slots, prices, mapVars, tradeVars,
                   wsVars, bg_threads_started, faults_left, om, sw>>

\* lines 498-510: pop the next slot, skip it when ended, else append it and
\* activate; after the loop print_header reads the equity when a slot was added
MtLoop(th) ==
    /\ pc[th] = "mt_loop"
    /\ IF KeepsFilling(active_slots, slot_queue)
         THEN LET next_slot == Head(slot_queue) IN
              /\ slot_queue' = Tail(slot_queue)
              /\ IF AlreadyEnded(next_slot, mt.now)
                   THEN /\ mt' = [mt EXCEPT !.popped = Append(mt.popped, next_slot)]
                        /\ UNCHANGED <<active_slots, pc>>
                   ELSE /\ active_slots' = Append(active_slots, next_slot)
                        /\ mt' = [mt EXCEPT !.slot = next_slot,
                                            !.popped = Append(mt.popped, next_slot)]
                        /\ Goto(th, "act_select")
              /\ UNCHANGED faults_left
         ELSE /\ UNCHANGED <<slot_queue, active_slots>>
              /\ \/ /\ mt' = MtIdle
                    /\ Goto(th, AfterMaintain(th))
                    /\ UNCHANGED faults_left
                 \/ /\ mt.added
                    /\ MtRaise(th)
    /\ UNCHANGED <<probe, now, markets_file, all_slots, prices, mapVars, tradeVars,
                   wsVars, bg_threads_started, om, sw>>

\* lines 395-400: select_winning_sides, then get_current_equity
ActSelect(th) ==
    /\ pc[th] = "act_select"
    /\ \/ \E failed \in {F \in SUBSET CRYPTOS : Cardinality(F) <= faults_left} :
            /\ mt' = [mt EXCEPT !.selections =
                                    select_winning_sides(mt.slot, Fetched(mt.slot, failed)),
                                !.c = 1, !.added_tokens = <<>>]
            /\ faults_left' = faults_left - Cardinality(failed)
            /\ Goto(th, "act_open")
       \/ MtRaise(th)
    /\ UNCHANGED <<probe, now, slotVars, prices, mapVars, tradeVars, wsVars,
                   bg_threads_started, om, sw>>

\* lines 408-409: if entry <= 0: continue
SkipsEntry_always(entry) == TRUE
SkipsEntry(entry) == entry <= 0

\* lines 402-442: one iteration of the loop over CRYPTOS
ActOpen(th) ==
    /\ pc[th] = "act_open"
    /\ mt.c <= NumCryptos
    /\ LET sel == mt.selections[mt.c]
           entry == sel.entry_price
           shares == (TRADE_AMOUNT * 100) \div entry
           limit_sell == entry + LIMIT_OFFSET
           trade_id == Len(db_trades) + 1
       IN IF SkipsEntry(entry)
            THEN /\ mt' = [mt EXCEPT !.c = mt.c + 1]
                 /\ UNCHANGED <<mapVars, tradeVars, faults_left, pc>>
            ELSE \/ /\ db_trades' = Append(db_trades,
                                      NewRow(mt.slot, mt.c, sel, shares, limit_sell,
                                             get_current_equity(db_trades)))
                    /\ trades' = Append(trades,
                          [trade_id |-> trade_id, crypto |-> mt.c, side |-> sel.side,
                           entry_price |-> entry, limit_sell |-> limit_sell,
                           shares |-> shares, slot_label |-> mt.slot,
                           closed |-> FALSE])
                    /\ token_to_label' = DictPut(token_to_label, sel.token_id,
                                                 <<mt.c, sel.side>>)
                    /\ token_to_trade' = DictPut(token_to_trade, sel.token_id, trade_id)
                    /\ mt' = [mt EXCEPT !.c = mt.c + 1,
                                        !.added_tokens = Append(mt.added_tokens, sel.token_id)]
                    /\ UNCHANGED <<faults_left, pc>>
                 \/ /\ MtRaise(th)
                    /\ UNCHANGED <<mapVars, tradeVars>>
    /\ UNCHANGED <<probe, now, slotVars, prices, wsVars, bg_threads_started, om, sw>>

\* lines 444-445: the send_subscribe calls of one activation, each with its
\* list of ids
SubscribeCalls_per_token(added_tokens) ==
    [i \in 1..Len(added_tokens) |-> <<added_tokens[i]>>]
SubscribeCalls(added_tokens) ==
    IF added_tokens # <<>> THEN <<added_tokens>> ELSE <<>>

RECURSIVE SendAll(_, _)
SendAll(subs, calls) ==
    IF calls = <<>> THEN subs
    ELSE SendAll(send_subscribe(subs, Head(calls)), Tail(calls))

\* lines 444-447 and 507: one batched subscribe for the added tokens
ActSub(th) ==
    /\ pc[th] = "act_open"
    /\ mt.c > NumCryptos
    /\ feed_subs' = SendAll(feed_subs, SubscribeCalls(mt.added_tokens))
    /\ mt' = [mt EXCEPT !.added = TRUE, !.slot = 0, !.selections = <<>>,
                        !.c = 0, !.added_tokens = <<>>]
    /\ Goto(th, "mt_loop")
    /\ UNCHANGED <<probe, now, slotVars, prices, mapVars, tradeVars, connected,
                   msgs_left, bg_threads_started, faults_left, om, sw>>


\* ---------------------------------------------------- slot_watcher_thread
Expired_early(slot, t) == t + HOUR >= EndDt(slot)
Expired(slot, t) == t >= EndDt(slot)

\* del active_slots[i] for the expired indices
RemoveIndices(list, idxs) ==
    LET keep == {i \in 1..Len(list) : i \notin SeqToSet(idxs)}
        F[i \in 0..Len(list)] ==
            IF i = 0 THEN <<>>
            ELSE IF i \in keep THEN Append(F[i - 1], list[i]) ELSE F[i - 1]
    IN F[Len(list)]

\* lines 517-520: wake up, take the time
WatcherWake ==
    /\ Running
    /\ pc.watcher = "sleep"
    /\ sw' = [SwIdle EXCEPT !.now = now, !.i = 1]
    /\ Goto("watcher", "sweep")
    /\ UNCHANGED <<probe, now, slotVars, prices, mapVars, tradeVars, wsVars,
                   bg_threads_started, faults_left, om, mt>>

\* the part of close_slot_trades' locals that one call owns
CsReset(r) == [r EXCEPT !.size = 0, !.pos = 0, !.remove = <<>>, !.results = 0,
                        !.token = <<>>, !.trade = 0, !.last_bid = 0]

\* lines 521-525: next active slot; an expired one is handed to
\* close_slot_trades, whose loop starts an iterator over token_to_trade
Sweep ==
    /\ Running
    /\ pc.watcher = "sweep"
    /\ sw.i <= Len(active_slots)
    /\ IF Expired(active_slots[sw.i], sw.now)
         THEN /\ sw' = [sw EXCEPT !.size = Len(token_to_trade), !.pos = 1]
              /\ Goto("watcher", "cs_iter")
         ELSE /\ sw' = [sw EXCEPT !.i = sw.i + 1]
              /\ UNCHANGED pc
    /\ UNCHANGED <<probe, now, slotVars, prices, mapVars, tradeVars, wsVars,
                   bg_threads_started, faults_left, om, mt>>

\* lines 526-528: close_slot_trades is over, by return or by an exception
\* caught as [CLOSE ERR]; the slot's index is recorded either way
CsLeave == [CsReset(sw) EXCEPT !.expired = Append(sw.expired, sw.i), !.i = sw.i + 1]

BelongsToSlot_any(trade, slot) == TRUE
BelongsToSlot(trade, slot) == trade.slot_label = slot

LastBid_zero(p, token, entry_price) ==
    IF token \in DOMAIN p THEN p[token].bid ELSE 0
LastBid(p, token, entry_price) ==
    IF token \in DOMAIN p THEN p[token].bid ELSE entry_price

\* lines 458-464: one step of the iteration over token_to_trade.items();
\* the iterator raises RuntimeError when the dict changed size
CsIter ==
    /\ Running
    /\ pc.watcher = "cs_iter"
    /\ LET slot == active_slots[sw.i] IN
       IF Len(token_to_trade) # sw.size
         THEN /\ sw' = CsLeave
              /\ Goto("watcher", "sweep")
         ELSE IF sw.pos > Len(token_to_trade)
           THEN /\ Goto("watcher", "cs_cleanup")
                /\ UNCHANGED sw
           ELSE LET token == token_to_trade[sw.pos].key
                    trade == trades[token_to_trade[sw.pos].val]
                IN IF ~BelongsToSlot(trade, slot)
                     THEN /\ sw' = [sw EXCEPT !.pos = sw.pos + 1]
                          /\ UNCHANGED pc
                     ELSE IF trade.closed
                       THEN /\ sw' = [sw EXCEPT !.pos = sw.pos + 1,
                                                !.remove = Append(sw.remove, token)]
                            /\ UNCHANGED pc
                       ELSE /\ sw' = [sw EXCEPT !.remove = Append(sw.remove, token),
                                                !.token = token,
                                                !.trade = trade.trade_id]
                            /\ Goto("watcher", "cs_set")
    /\ UNCHANGED <<probe, now, slotVars, prices, mapVars, tradeVars, wsVars,
                   bg_threads_started, faults_left, om, mt>>

\* lines 466-467: set the terminal flag, read the last known bid
CsSet ==
    /\ Running
    /\ pc.watcher = "cs_set"
    /\ trades' = [trades EXCEPT ![sw.trade].closed = TRUE]
    /\ sw' = [sw EXCEPT !.last_bid =
                 LastBid(prices, sw.token, trades[sw.trade].entry_price)]
    /\ Goto("watcher", "cs_close")
    /\ UNCHANGED <<probe, now, slotVars, prices, mapVars, db_trades, wsVars,
                   bg_threads_started, faults_left, om, mt>>

\* lines 469-472: persist the close, or the store raises
CsClose ==
    /\ Running
    /\ pc.watcher = "cs_close"
    /\ \/ /\ db_trades' = close_trade(db_trades, sw.trade, sw.last_bid, "slot_expired")
          /\ sw' = [sw EXCEPT !.results = sw.results + 1, !.pos = sw.pos + 1,
                              !.token = <<>>, !.trade = 0, !.last_bid = 0]
          /\ Goto("watcher", "cs_iter")
          /\ UNCHANGED faults_left
       \/ /\ faults_left > 0
          /\ faults_left' = faults_left - 1
          /\ sw' = CsLeave
          /\ Goto("watcher", "sweep")
          /\ UNCHANGED db_trades
    /\ UNCHANGED <<probe, now, slotVars, prices, mapVars, trades, wsVars,
                   bg_threads_started, om, mt>>

\* lines 475-485: the summary reads the equity (which may raise), then the
\* maps are cleaned and one batched unsubscribe is sent
CsCleanup ==
    /\ Running
    /\ pc.watcher = "cs_cleanup"
    /\ \/ /\ token_to_trade' = DictPopAll(token_to_trade, sw.remove)
          /\ token_to_label' = DictPopAll(token_to_label, sw.remove)
          /\ feed_subs' = send_unsubscribe(feed_subs, sw.remove)
          /\ UNCHANGED faults_left
       \/ /\ sw.results > 0
          /\ faults_left > 0
          /\ faults_left' = faults_left - 1
          /\ UNCHANGED <<mapVars, feed_subs>>
    /\ sw' = CsLeave
    /\ Goto("watcher", "sweep")
    /\ UNCHANGED <<probe, now, slotVars, prices, tradeVars, connected, msgs_left,
                   bg_threads_started, om, mt>>

\* lines 530-537: drop the expired slots and top up, else sleep again
SweepEnd ==
    /\ Running
    /\ pc.watcher = "sweep"
    /\ sw.i > Len(active_slots)
    /\ IF sw.expired # <<>>
         THEN /\ active_slots' = RemoveIndices(active_slots, sw.expired)
              /\ Goto("watcher", "mt_start")
         ELSE /\ UNCHANGED active_slots
              /\ Goto("watcher", "sleep")
    /\ sw' = SwIdle
    /\ UNCHANGED <<probe, now, markets_file, all_slots, slot_queue, prices, mapVars,
                   tradeVars, wsVars, bg_threads_started, faults_left, om, mt>>


\* ------------------------------------------------------ the stream (main)
\* main, step 4: run_forever connects the socket
ConnectOk ==
    /\ pc.main = "ws_connect"
    /\ connected' = TRUE
    /\ feed_subs' = {}
    /\ Goto("main", "on_open")
    /\ UNCHANGED <<probe, now, slotVars, prices, mapVars, tradeVars, msgs_left,
                   bg_threads_started, faults_left, om, sw, mt>>

\* lines 586-594: where main continues when run_forever has returned or has
\* raised an Exception: at time.sleep(3) inside the while True loop
AfterRunForever_gives_up == "exited"
AfterRunForever == "ws_wait"

\* run_forever returns or raises without a connection; main sleeps 3 s
ConnectFail ==
    /\ pc.main = "ws_connect"
    /\ Goto("main", AfterRunForever)
    /\ UNCHANGED <<probe, now, slotVars, prices, mapVars, tradeVars, wsVars,
                   bg_threads_started, faults_left, om, sw, mt>>

\* lines 586-588: the sleep is over, the loop builds a new WebSocketApp
Reconnect ==
    /\ pc.main = "ws_wait"
    /\ Goto("main", "ws_connect")
    /\ UNCHANGED <<probe, now, slotVars, prices, mapVars, tradeVars, wsVars,
                   bg_threads_started, faults_left, om, sw, mt>>

\* the connection drops while the receiver waits for a message
Disconnect ==
    /\ pc.main = "recv"
    /\ connected' = FALSE
    /\ feed_subs' = {}
    /\ Goto("main", AfterRunForever)
    /\ UNCHANGED <<probe, now, slotVars, prices, mapVars, tradeVars, msgs_left,
                   bg_threads_started, faults_left, om, sw, mt>>

\* on_open: re-send all tracked tokens, print the header (reads the equity,
\* which may raise and end the callback), start the background threads once
OnOpen ==
    /\ pc.main = "on_open"
    /\ feed_subs' = feed_subs \cup KeySet(token_to_label)
    /\ \/ /\ IF ~bg_threads_started
               THEN /\ bg_threads_started' = TRUE
                    /\ pc' = [pc EXCEPT !.main = "recv", !.watcher = "sleep",
                                        !.fetcher = "on"]
               ELSE /\ UNCHANGED bg_threads_started
                    /\ Goto("main", "recv")
          /\ UNCHANGED faults_left
       \/ /\ faults_left > 0
          /\ faults_left' = faults_left - 1
          /\ Goto("main", "recv")
          /\ UNCHANGED bg_threads_started
    /\ UNCHANGED <<probe, now, slotVars, prices, mapVars, tradeVars, connected,
                   msgs_left, om, sw, mt>>

\* the asset ids the feed can send an event for: the subscribed ones, and
\* those of closed trades (events in flight when the unsubscribe was sent)
TickTokens ==
    feed_subs \cup {db_trades[i].token_id : i \in {j \in 1..Len(trades) : trades[j].closed}}

\* a decoded stream message: a batch of elements.  A best_bid_ask event
\* ("quote"), a best_bid_ask event whose best_bid is not a number
\* ("bad_number"), or an element that is not a JSON object ("not_object").
NoToken == <<0, 0, "none">>
Items ==
    {[asset_id |-> t, best_bid |-> b, form |-> "quote"] : t \in TickTokens, b \in Bids}
      \cup {[asset_id |-> t, best_bid |-> 0, form |-> "bad_number"] : t \in TickTokens}
      \cup {[asset_id |-> NoToken, best_bid |-> 0, form |-> "not_object"]}
Messages == UNION {[1..n -> Items] : n \in 1..MaxBatch}

\* the rows of the store with the quote updates of msg noted: for a token of
\* the subscription table, the best bid of its last quote update in msg
NoteDelivered(db, msg) ==
    [i \in 1..Len(db) |->
        LET ks == {k \in 1..Len(msg) :
                      /\ msg[k].form = "quote"
                      /\ msg[k].asset_id = db[i].token_id
                      /\ DictHas(token_to_label, db[i].token_id)}
        IN IF ks = {}
             THEN db[i]
             ELSE [db[i] EXCEPT !.delivered =
                      msg[CHOOSE k \in ks : \A j \in ks : j <= k].best_bid]]

\* on_message is called with one message: a JSON text that decodes to a
\* batch, or a text that is not JSON (lines 275-278: return)
Receive ==
    /\ pc.main = "recv"
    /\ connected
    /\ msgs_left > 0
    /\ msgs_left' = msgs_left - 1
    /\ \/ /\ \E msg \in Messages :
                /\ om' = [OmIdle EXCEPT !.msg = msg,
                                        !.closed_before = {i \in 1..Len(trades) : trades[i].closed}]
                /\ db_trades' = NoteDelivered(db_trades, msg)
          /\ Goto("main", "om_item")
       \/ UNCHANGED <<om, pc, db_trades>>
    /\ UNCHANGED <<probe, now, slotVars, prices, mapVars, trades, connected, feed_subs,
                   bg_threads_started, faults_left, sw, mt>>

\* the callback is over, by return or by break
OmLeave ==
    /\ om' = OmIdle
    /\ Goto("main", "recv")

\* an exception leaves the callback: the socket library catches it and calls
\* on_error with it
OmRaise ==
    /\ om' = OmIdle
    /\ Goto("main", "on_error")

\* lines 339-343: on_error prints the error; the receiver goes on
OnError ==
    /\ pc.main = "on_error"
    /\ Goto("main", "recv")
    /\ UNCHANGED <<probe, now, slotVars, prices, mapVars, tradeVars, wsVars,
                   bg_threads_started, faults_left, om, sw, mt>>

OmNextItem ==
    /\ om' = [om EXCEPT !.msg = Tail(om.msg), !.trade = 0]
    /\ Goto("main", "om_item")

\* line 294: token_id not in token_to_label
Untracked_never(token) == FALSE
Untracked(token) == ~DictHas(token_to_label, token)

\* lines 282-295: next item of the batch; item.get raises AttributeError on
\* an element that is not an object (line 286 or 290); untracked tokens are
\* skipped (om counts the events it ignored this way)
OmItem ==
    /\ pc.main = "om_item"
    /\ IF om.msg = <<>>
         THEN OmLeave
         ELSE IF Head(om.msg).form = "not_object"
           THEN OmRaise
         ELSE IF Untracked(Head(om.msg).asset_id)
           THEN /\ om' = [om EXCEPT !.msg = Tail(om.msg), !.trade = 0,
                                    !.ignored = @ + 1]
                /\ Goto("main", "om_item")
           ELSE /\ Goto("main", "om_price")
                /\ UNCHANGED om
    /\ UNCHANGED <<probe, now, slotVars, prices, mapVars, tradeVars, wsVars,
                   bg_threads_started, faults_left, sw, mt>>

\* lines 297-304: convert bid and ask (float raises ValueError on a value
\* that is not a number), store the price, read the label (KeyError when the
\* sweep removed it meanwhile), look up the trade
OmPrice ==
    /\ pc.main = "om_price"
    /\ LET token == Head(om.msg).asset_id
           bid == Head(om.msg).best_bid
           ask == TickAsk(bid)
       IN IF Head(om.msg).form = "bad_number"
            THEN /\ OmRaise
                 /\ UNCHANGED prices
            ELSE /\ prices' = [t \in DOMAIN prices \cup {token} |->
                                IF t = token
                                  THEN [bid |-> bid, ask |-> ask, mid |-> (bid + ask) \div 2]
                                  ELSE prices[t]]
                 /\ IF ~DictHas(token_to_label, token)
                      THEN OmRaise
                      ELSE IF ~DictHas(token_to_trade, token)
                        THEN OmNextItem
                        ELSE /\ om' = [om EXCEPT !.trade = DictGet(token_to_trade, token)]
                             /\ Goto("main", "om_tick")
    /\ UNCHANGED <<probe, now, slotVars, mapVars, tradeVars, wsVars,
                   bg_threads_started, faults_left, sw, mt>>

LimitHit(bid, trade) == bid >= trade.limit_sell /\ ~trade.closed

\* lines 315-319: record the tick (the store may raise), test the limit
OmTick ==
    /\ pc.main = "om_tick"
    /\ \/ /\ db_trades' = record_tick(db_trades, trades[om.trade].trade_id,
                                      Head(om.msg).best_bid,
                                      TickAsk(Head(om.msg).best_bid))
          /\ IF LimitHit(Head(om.msg).best_bid, trades[om.trade])
               THEN /\ Goto("main", "om_set")
                    /\ UNCHANGED om
               ELSE OmNextItem
          /\ UNCHANGED faults_left
       \/ /\ faults_left > 0
          /\ faults_left' = faults_left - 1
          /\ OmRaise
          /\ UNCHANGED db_trades
    /\ UNCHANGED <<probe, now, slotVars, prices, mapVars, trades, wsVars,
                   bg_threads_started, sw, mt>>

\* line 320: set the terminal flag
OmSet ==
    /\ pc.main = "om_set"
    /\ trades' = [trades EXCEPT ![om.trade].closed = TRUE]
    /\ Goto("main", "om_close")
    /\ UNCHANGED <<probe, now, slotVars, prices, mapVars, db_trades, wsVars,
                   bg_threads_started, faults_left, om, sw, mt>>

\* lines 321-328: persist the close (the store may raise)
OmClose ==
    /\ pc.main = "om_close"
    /\ \/ /\ db_trades' = close_trade(db_trades, trades[om.trade].trade_id,
                                      Head(om.msg).best_bid, "limit_hit")
          /\ Goto("main", "om_pop")
          /\ UNCHANGED <<faults_left, om>>
       \/ /\ faults_left > 0
          /\ faults_left' = faults_left - 1
          /\ OmRaise
          /\ UNCHANGED db_trades
    /\ UNCHANGED <<probe, now, slotVars, prices, mapVars, trades, wsVars,
                   bg_threads_started, sw, mt>>

\* lines 330-336: unsubscribe the token, drop it from the maps, break
OmPop ==
    /\ pc.main = "om_pop"
    /\ LET token == Head(om.msg).asset_id IN
          /\ feed_subs' = send_unsubscribe(feed_subs, <<token>>)
          /\ token_to_trade' = DictPop(token_to_trade, token)
          /\ token_to_label' = DictPop(token_to_label, token)
    /\ OmLeave
    /\ UNCHANGED <<probe, now, slotVars, prices, tradeVars, connected, msgs_left,
                   bg_threads_started, faults_left, sw, mt>>

\* ------------------------------------------------------------ the system
MainStep ==
    \/ Startup
    \/ ConnectOk
    \/ ConnectFail
    \/ Reconnect
    \/ Disconnect
    \/ OnOpen
    \/ Receive
    \/ OnError
    \/ OmItem
    \/ OmPrice
    \/ OmTick
    \/ OmSet
    \/ OmClose
    \/ OmPop

MaintainStep(th) ==
    \/ MtStart(th)
    \/ MtLoop(th)
    \/ ActSelect(th)
    \/ ActOpen(th)
    \/ ActSub(th)

WatcherStep ==
    \/ WatcherWake
    \/ Sweep
    \/ CsIter
    \/ CsSet
    \/ CsClose
    \/ CsCleanup
    \/ SweepEnd

WatcherThread == WatcherStep \/ (Running /\ MaintainStep("watcher"))

Next ==
    \/ Tick
    \/ Discover
    \/ MainStep
    \/ MaintainStep("main")
    \/ WatcherThread

Spec == Init /\ [][Next]_vars

\* ------------------------------------------- the system without stream traffic
\* No message is ever delivered; time passes and every started thread keeps
\* running.  The connection attempts may fail forever, and discovery may find
\* nothing.
MainQuiet ==
    \/ Startup
    \/ ConnectOk
    \/ ConnectFail
    \/ Reconnect
    \/ Disconnect
    \/ OnOpen
    \/ MaintainStep("main")

NextQuiet ==
    \/ Tick
    \/ Discover
    \/ MainQuiet
    \/ WatcherThread

\* what the main thread does by itself: a connection attempt ends one way or
\* the other; whether an open connection drops is up to the network
MainRuns ==
    \/ Startup
    \/ ConnectOk
    \/ ConnectFail
    \/ Reconnect
    \/ OnOpen
    \/ MaintainStep("main")

SpecLive ==
    /\ Init
    /\ [][NextQuiet]_vars
    /\ WF_vars(Tick)
    /\ WF_vars(MainRuns)
    /\ WF_vars(WatcherThread)

\* ------------------------------------------ side selection applied on its own
Quotes == 0..MaxQuote

InitSides ==
    /\ Running_Init
    /\ \E s \in Slots, c \in CRYPTOS, y \in Quotes, n \in Quotes :
         probe = [fn |-> "select", slot |-> s, crypto |-> c,
                  yes_price |-> y, no_price |-> n, done |-> FALSE,
                  out |-> Selection(s, c, 0, 0)]

ApplySelection ==
    /\ probe.fn = "select"
    /\ ~probe.done
    /\ probe' = [probe EXCEPT !.done = TRUE,
                              !.out = Selection(probe.slot, probe.crypto,
                                                probe.yes_price, probe.no_price)]
    /\ UNCHANGED <<now, slotVars, prices, mapVars, tradeVars, wsVars,
                   bg_threads_started, faults_left, pc, om, sw, mt>>

NextSides == ApplySelection

SpecSides == InitSides /\ [][NextSides]_vars

\* ================================================================ claims
\* a trade is Open while its terminal flag is not set
OpenTrades == {i \in 1..Len(trades) : ~trades[i].closed}
TradesOfSlot(slot) == {i \in 1..Len(trades) : trades[i].slot_label = slot}

\* neither thread is inside a close (between the test of the terminal flag
\* and the removal of the token from the maps)
OmLabels == {"om_item", "om_price", "om_tick", "om_set", "om_close", "om_pop"}
MainOutsideClose == pc.main \notin OmLabels
WatcherOutsideClose == pc.watcher \notin {"sweep", "cs_iter", "cs_set", "cs_close", "cs_cleanup"}

\* C1: the persistence close is invoked at most once per trade, in every
\* interleaving of the stream receiver and the sweep timer.
C1_ClosedAtMostOnce ==
    \A i \in 1..Len(db_trades) : db_trades[i].closes <= 1

\* C2: in every reachable state the number of active slots is between 0 and
\* MAX_CONCURRENT_SLOTS inclusive.
C2_ActiveSlotsBounded ==
    /\ Len(active_slots) >= 0
    /\ Len(active_slots) <= MAX_CONCURRENT_SLOTS

\* C2 witness: the active-slot set is full again after a sweep closed an
\* expired slot, a stream message was handled and the socket reconnected.
C2_Witness_FullAfterSweep ==
    /\ Len(active_slots) = MAX_CONCURRENT_SLOTS
    /\ pc.watcher = "sleep"
    /\ \E i \in 1..Len(db_trades) : db_trades[i].exit_reason = "slot_expired"
    /\ msgs_left < MaxMsgs
    /\ pc.main = "ws_wait"

\* C3: whenever no close is in progress, the keys of the subscription table
\* token_to_label are exactly the instrument ids of the Open trades.
C3_SubscribedEqualsOpen ==
    (MainOutsideClose /\ WatcherOutsideClose /\ mt = MtIdle)
        => KeySet(token_to_label) = {db_trades[i].token_id : i \in OpenTrades}

\* the event item asks for a close that has not happened: its token is
\* tracked, the trade behind it is Open and the best bid reaches the target
Unserved(item, t2t, trs) ==
    /\ DictHas(t2t, item.asset_id)
    /\ ~trs[DictGet(t2t, item.asset_id)].closed
    /\ item.best_bid >= trs[DictGet(t2t, item.asset_id)].limit_sell

\* C4: when the tick handler returns, every event of the message whose best
\* bid is at or above the target of an Open trade has closed that trade; the
\* close it persists has reason limit_hit and exit price equal to that best
\* bid; and the handler sets the terminal flag only for a bid at or above the
\* target.
C4_TickAtTargetCloses ==
    [][/\ (pc.main \in OmLabels /\ pc'.main = "recv")
             => \A k \in 1..Len(om.msg) :
                    ~Unserved(om.msg[k], token_to_trade', trades')
       /\ (pc.main = "om_pop" /\ pc'.main = "recv")
             => /\ db_trades'[om.trade].exit_reason = "limit_hit"
                /\ db_trades'[om.trade].exit_price = Head(om.msg).best_bid
       /\ (pc.main = "om_set" /\ pc'.main = "om_close")
             => \A i \in 1..Len(trades) :
                    (~trades[i].closed /\ trades'[i].closed)
                        => Head(om.msg).best_bid >= trades[i].limit_sell]_vars

\* C5: a persisted Expired close of a trade for whose instrument no tick was
\* ever stored has exit price = entry price and profit/loss 0.
C5_ExpiredWithoutTickAtEntry ==
    \A i \in 1..Len(db_trades) :
        (db_trades[i].exit_reason = "slot_expired"
            /\ db_trades[i].token_id \notin DOMAIN prices)
        => /\ db_trades[i].exit_price = db_trades[i].entry_price
           /\ db_trades[i].pnl_usd = 0

\* C5 witness: the sweep has closed a trade whose instrument never had a tick.
C5_Witness_ExpiredNoTick ==
    \E i \in 1..Len(db_trades) :
        /\ db_trades[i].exit_reason = "slot_expired"
        /\ db_trades[i].closes = 1
        /\ db_trades[i].token_id \notin DOMAIN prices
        /\ db_trades[i].entry_price > 0

\* C7: whenever a slot leaves the active-slot set, no trade of that slot is
\* still Open and none is still present in the subscription table.
C7_ClosedBeforeRemoved ==
    [][\A s \in Slots :
          (s \in SeqToSet(active_slots) /\ s \notin SeqToSet(active_slots'))
          => \A i \in TradesOfSlot(s) :
                /\ trades'[i].closed
                /\ ~DictHas(token_to_label', db_trades'[i].token_id)]_vars

\* a step of the sweep: of slot_watcher_thread's loop over the active slots,
\* of close_slot_trades, or of the removal of the expired slots
SweepLabels == {"sweep", "cs_iter", "cs_set", "cs_close", "cs_cleanup"}
SweepStep == pc.watcher \in SweepLabels /\ (sw' # sw \/ pc'.watcher # pc.watcher)

\* slot, an active slot, has not ended at the time the sweep took
StillOpenSlot(slot) == slot \in SeqToSet(active_slots) /\ ~Expired(slot, sw.now)

\* C8: a step of the sweep leaves every trade (in memory and persisted), every
\* subscription-table entry, every feed subscription and every price entry of
\* an active slot that has not ended unchanged, and keeps that slot in the
\* active-slot set; and a sweep that found an expired slot goes on to the
\* top-up in the same iteration.
C8_SweepTouchesOnlyExpiredSlot ==
    [][SweepStep =>
         /\ \A b \in Slots : StillOpenSlot(b) =>
               /\ \A i \in TradesOfSlot(b) :
                     trades'[i] = trades[i] /\ db_trades'[i] = db_trades[i]
               /\ \A c \in CRYPTOS, side \in Sides :
                     LET t == Markets(b)[c][side] IN
                     /\ DictHas(token_to_label', t) = DictHas(token_to_label, t)
                     /\ DictHas(token_to_trade', t) = DictHas(token_to_trade, t)
                     /\ DictHas(token_to_trade, t) =>
                           DictGet(token_to_trade', t) = DictGet(token_to_trade, t)
                     /\ (t \in feed_subs') = (t \in feed_subs)
                     /\ (t \in DOMAIN prices') = (t \in DOMAIN prices)
                     /\ t \in DOMAIN prices => prices'[t] = prices[t]
               /\ b \in SeqToSet(active_slots')
         /\ (pc.watcher = "sweep" /\ sw.i > Len(active_slots) /\ sw.expired # <<>>)
               => pc'.watcher = "mt_start"]_vars

\* C8 witness: the sweep has closed and unsubscribed the trade of the ended
\* slot and removed the slot, the other slot's trade is Open, tracked and
\* subscribed, and the watcher is at the top-up.
C8_Witness_OneOfTwoExpired ==
    /\ pc.watcher = "mt_start"
    /\ Len(active_slots) = 1
    /\ \E i \in 1..Len(trades), j \in 1..Len(trades) :
          /\ trades[i].slot_label # active_slots[1]
          /\ db_trades[i].exit_reason = "slot_expired"
          /\ ~DictHas(token_to_label, db_trades[i].token_id)
          /\ db_trades[i].token_id \notin feed_subs
          /\ trades[j].slot_label = active_slots[1]
          /\ ~trades[j].closed
          /\ DictHas(token_to_label, db_trades[j].token_id)
          /\ db_trades[j].token_id \in feed_subs

\* C6: every trade still Open when its slot's end time has passed is
\* eventually closed by the sweep (or the process has ended), whatever the
\* stream does, also when the connection is never established.
C6_OpenTradeEventuallyExpired ==
    \A s \in Slots :
        (now >= EndDt(s) /\ TradesOfSlot(s) \cap OpenTrades # {})
            ~> (TradesOfSlot(s) \cap OpenTrades = {} \/ ~Running)

\* C9: whenever the active-slot set is below MAX_CONCURRENT_SLOTS and the
\* source holds a slot that has not ended and is not active, eventually that
\* slot is active, or it has ended, or the active-slot set is full (or the
\* process has ended).
C9_TopUpAfterEverySweep ==
    \A s \in Slots :
        (/\ Running
         /\ bg_threads_started
         /\ Len(active_slots) < MAX_CONCURRENT_SLOTS
         /\ s \in markets_file
         /\ s \notin SeqToSet(active_slots)
         /\ now < EndDt(s))
            ~> (\/ s \in SeqToSet(active_slots)
                \/ now >= EndDt(s)
                \/ Len(active_slots) = MAX_CONCURRENT_SLOTS
                \/ ~Running)

\* C10: for every instrument and every pair of fetched prices, side selection
\* returns the side whose price is >= the other side's, YES on an exact tie,
\* with the identifier and the entry price of that side.
C10_SelectsHigherSideYesOnTie ==
    (probe.fn = "select" /\ probe.done) =>
        LET out == probe.out
            m == Markets(probe.slot)[probe.crypto]
        IN /\ out.side \in {"YES", "NO"}
           /\ out.side = "YES" <=> probe.yes_price >= probe.no_price
           /\ out.side = "YES" =>
                 out.token_id = m.yes /\ out.entry_price = probe.yes_price
           /\ out.side = "NO" =>
                 out.token_id = m.no /\ out.entry_price = probe.no_price
           /\ out.entry_price >= probe.yes_price
           /\ out.entry_price >= probe.no_price

\* C10 witness: side selection has answered for an exact tie of non-zero prices.
C10_Witness_Tie ==
    /\ probe.fn = "select"
    /\ probe.done
    /\ probe.yes_price = probe.no_price
    /\ probe.yes_price > 0
    /\ probe.out.side = "YES"

\* ---------------------------------------------- queue refill applied on its own
\* reload_and_rebuild_queue on any markets file at any time
FileSlots == 1..MaxFileSlot
RefillTimes == 0..(MaxFileSlot + 1)

InitRefill ==
    /\ Running_Init
    /\ \E file \in SUBSET FileSlots, t \in RefillTimes :
         probe = [fn |-> "refill", file |-> file, t |-> t, done |-> FALSE,
                  out |-> <<>>]

reload_and_rebuild_queue ==
    /\ probe.fn = "refill"
    /\ ~probe.done
    /\ probe' = [probe EXCEPT !.done = TRUE,
                              !.out = build_slot_queue(parse_markets_file(probe.file),
                                                       probe.t)]
    /\ UNCHANGED <<now, slotVars, prices, mapVars, tradeVars, wsVars,
                   bg_threads_started, faults_left, pc, om, sw, mt>>

NextRefill == reload_and_rebuild_queue

SpecRefill == InitRefill /\ [][NextRefill]_vars

C12_OneTradePerSlotInstrument ==
    /\ \A i \in 1..Len(active_slots), j \in 1..Len(active_slots) :
          i # j => active_slots[i] # active_slots[j]
    /\ \A i \in 1..Len(db_trades), j \in 1..Len(db_trades) :
          (/\ db_trades[i].slot_label = db_trades[j].slot_label
           /\ db_trades[i].asset = db_trades[j].asset) => i = j

\* C13: handling a tick that arrived after a trade's terminal flag was set
\* changes neither the tick count nor the excursion statistics of that trade
\* and starts no close for it; and no other step changes them for a closed
\* trade either.
C13_NoTickEffectOnceClosed ==
    [][\A i \in 1..Len(trades) :
          (trades[i].closed /\ (pc.main \in OmLabels => i \in om.closed_before)) =>
             /\ db_trades'[i].num_price_updates = db_trades[i].num_price_updates
             /\ db_trades'[i].min_price = db_trades[i].min_price
             /\ db_trades'[i].max_price = db_trades[i].max_price
             /\ (pc.main = "om_tick" /\ om.trade = i) => pc'.main # "om_set"]_vars

\* ------------------------------------------------ close_trade applied on its own
\* the store holds one trade, Open or closed before; close_trade is called for
\* its id or for an id the store does not hold
ExitReasons == {"limit_hit", "slot_expired"}

StoredOpen ==
    LET sel == select_winning_sides(1, Fetched(1, {}))[1]
    IN <<NewRow(1, 1, sel, (TRADE_AMOUNT * 100) \div sel.entry_price,
                sel.entry_price + LIMIT_OFFSET, get_current_equity(<<>>))>>

ExitPrices == Bids \cup {StoredOpen[1].entry_price}

StoredDbs ==
    {StoredOpen} \cup {close_trade(StoredOpen, 1, e, r) : e \in ExitPrices, r \in ExitReasons}

InitClose ==
    /\ Running_Init
    /\ \E db \in StoredDbs, id \in 1..2, e \in ExitPrices, r \in ExitReasons :
         probe = [fn |-> "close", db |-> db, trade_id |-> id, exit_price |-> e,
                  exit_reason |-> r, done |-> FALSE, db_out |-> db, result |-> <<>>]

ApplyClose ==
    /\ probe.fn = "close"
    /\ ~probe.done
    /\ probe' = [probe EXCEPT
                   !.done = TRUE,
                   !.db_out = close_trade(probe.db, probe.trade_id,
                                          probe.exit_price, probe.exit_reason),
                   !.result = close_trade_result(probe.db, probe.trade_id,
                                                 probe.exit_price, probe.exit_reason)]
    /\ UNCHANGED <<now, slotVars, prices, mapVars, tradeVars, wsVars,
                   bg_threads_started, faults_left, pc, om, sw, mt>>

NextClose == ApplyClose

SpecClose == InitClose /\ [][NextClose]_vars

\* C14: close_trade for an id the store does not hold, or for a trade that is
\* already closed, returns None and leaves the stored record unchanged.
C14_CloseOfClosedOrUnknownIsNoOp ==
    (/\ probe.fn = "close"
     /\ probe.done
     /\ \/ probe.trade_id \notin 1..Len(probe.db)
        \/ probe.db[probe.trade_id].outcome # "pending")
    => /\ probe.result = <<>>
       /\ Len(probe.db_out) = Len(probe.db)
       /\ \A i \in 1..Len(probe.db) :
             /\ probe.db_out[i].exit_price = probe.db[i].exit_price
             /\ probe.db_out[i].exit_reason = probe.db[i].exit_reason
             /\ probe.db_out[i].pnl_usd = probe.db[i].pnl_usd
             /\ probe.db_out[i].outcome = probe.db[i].outcome

\* C15: when the connect handler of a fresh connection completes, the ids
\* subscribed on the feed are exactly the keys of the subscription table.
C15_ResubscribedOnConnect ==
    [][(pc.main = "on_open" /\ pc'.main = "recv")
          => feed_subs' = KeySet(token_to_label')]_vars

\* a step in which send_subscribe or send_unsubscribe is called and returns:
\* the batched subscribe of activate_slot_trades, the batched unsubscribe of
\* close_slot_trades, the unsubscribe of a limit hit
SendStep ==
    \/ \E th \in Threads : pc[th] = "act_open" /\ mt.c > NumCryptos /\ pc'[th] = "mt_loop"
    \/ pc.watcher = "cs_cleanup" /\ pc'.watcher = "sweep" /\ faults_left' = faults_left
    \/ pc.main = "om_pop" /\ pc'.main # "om_pop"

\* C16: a subscribe or unsubscribe issued while the connection is not
\* established sends nothing (the feed's subscriptions stay as they are),
\* raises nothing to its caller (the caller goes on to its next statement and
\* no failure is consumed) and, for the subscribe, leaves the subscription
\* table alone.
C16_SendWhileDisconnectedIsNoOp ==
    [][(~connected /\ SendStep) =>
          /\ feed_subs' = feed_subs
          /\ faults_left' = faults_left
          /\ (\E th \in Threads : pc[th] = "act_open") => token_to_label' = token_to_label]_vars

\* the startup top-up has called send_subscribe for its new tokens before any
\* connection existed: the table holds them, the feed has none
C16_Witness_SubscribeBeforeConnect ==
    /\ ~connected
    /\ pc.main = "mt_loop"
    /\ mt.added
    /\ token_to_label # <<>>
    /\ feed_subs = {}

\* C17: the tick handler does not return from a batch while a later event of
\* the batch belongs to a tracked instrument: when it leaves after closing a
\* trade on a limit hit, no event behind the closing one is for a token of the
\* subscription table.
C17_NoTrackedEventSkipped ==
    [][(pc.main = "om_pop" /\ pc'.main # "om_pop") =>
          \A k \in 2..Len(om.msg) : ~DictHas(token_to_label', om.msg[k].asset_id)]_vars

\* ------------------------------------------- one tracked token's ticks
\* on_message for the events of one tracked token, with the wall clock in
\* seconds: the probe holds the token's entry of _last_tick_print (0 when it
\* has none, the default of line 308; the clock starts past THROTTLE as
\* time.time() does), the trade's target and terminal flag, and what the
\* last tick did.
TickBids == {64, 65, 66}

InitTick ==
    /\ Running_Init
    /\ \E closed \in BOOLEAN :
         probe = [fn |-> "tick", now_s |-> THROTTLE, last |-> 0, tracked |-> TRUE,
                  limit_sell |-> 60 + LIMIT_OFFSET, closed |-> closed,
                  bid |-> 0, printed |-> FALSE, closed_now |-> FALSE, n |-> 0]

\* lines 307-309: now - last >= 5
TickPrints(now_s, last) == now_s - last >= THROTTLE

\* the limit test moved under the throttle's branch
process_item_gated(p, bid) ==
    LET prints == TickPrints(p.now_s, p.last)
        hit == prints /\ LimitHit(bid, [limit_sell |-> p.limit_sell, closed |-> p.closed])
    IN [p EXCEPT !.last = IF hit THEN 0 ELSE IF prints THEN p.now_s ELSE @,
                 !.closed = p.closed \/ hit,
                 !.tracked = ~hit,
                 !.bid = bid, !.printed = prints, !.closed_now = hit,
                 !.n = @ + 1]

\* lines 297-336 for one event of the tracked token: the throttled print
\* (306-312), then the limit test (319), the flag (320) and the removal of
\* the token from the maps and from _last_tick_print (332-334)
process_item(p, bid) ==
    LET prints == TickPrints(p.now_s, p.last)
        hit == LimitHit(bid, [limit_sell |-> p.limit_sell, closed |-> p.closed])
    IN [p EXCEPT !.last = IF hit THEN 0 ELSE IF prints THEN p.now_s ELSE @,
                 !.closed = p.closed \/ hit,
                 !.tracked = ~hit,
                 !.bid = bid, !.printed = prints, !.closed_now = hit,
                 !.n = @ + 1]

\* a second of wall-clock time passes
TickSecond ==
    /\ probe.fn = "tick"
    /\ probe.now_s < THROTTLE + MaxSec
    /\ probe' = [probe EXCEPT !.now_s = @ + 1]
    /\ UNCHANGED <<now, slotVars, prices, mapVars, tradeVars, wsVars,
                   bg_threads_started, faults_left, pc, om, sw, mt>>

\* an event for the token arrives (line 294 lets it through while tracked)
on_message ==
    /\ probe.fn = "tick"
    /\ probe.tracked
    /\ probe.n < MaxTicks
    /\ \E bid \in TickBids : probe' = process_item(probe, bid)
    /\ UNCHANGED <<now, slotVars, prices, mapVars, tradeVars, wsVars,
                   bg_threads_started, faults_left, pc, om, sw, mt>>

NextTick == TickSecond \/ on_message

SpecTick == InitTick /\ [][NextTick]_vars

\* C18: whether a tick of a tracked token closes its trade depends only on
\* the best bid, the target and the terminal flag: it closes exactly when the
\* bid has reached the target and the trade is open, inside the throttle
\* window (nothing printed) as well as outside it.
C18_ThrottleNeverGatesLimit ==
    [][(probe.fn = "tick" /\ probe'.n = probe.n + 1) =>
          /\ probe'.closed_now = (probe'.bid >= probe.limit_sell /\ ~probe.closed)
          /\ probe'.closed = (probe.closed \/ probe'.closed_now)]_vars

\* a tick that fell inside the throttle window of its token (not printed)
\* closed the trade
C18_Witness_ClosedInsideWindow ==
    /\ probe.fn = "tick"
    /\ probe.n > 1
    /\ ~probe.printed
    /\ probe.closed_now

\* C19: a quote-update event (an object of the batch; an element that is
\* not an object has no token and is no event) whose token is not in the
\* subscription table when the handler takes it up is ignored: the handler
\* moves on to the next event of the batch, and prices, the trades, both
\* token maps, the store and the feed's subscriptions are unchanged; the
\* close steps are not entered.
C19_UntrackedEventIgnored ==
    [][(/\ pc.main = "om_item"
        /\ om.msg # <<>>
        /\ Head(om.msg).form # "not_object"
        /\ ~DictHas(token_to_label, Head(om.msg).asset_id)
        /\ (om' # om \/ pc'.main # pc.main))
          => /\ pc'.main = "om_item"
             /\ om'.msg = Tail(om.msg)
             /\ prices' = prices
             /\ trades' = trades
             /\ db_trades' = db_trades
             /\ token_to_label' = token_to_label
             /\ token_to_trade' = token_to_trade
             /\ feed_subs' = feed_subs]_vars

\* the handler has reached the end of a batch in which it ignored an event
\* (a packet still in flight for a token that was already removed)
C19_Witness_IgnoredInFlight ==
    /\ pc.main = "om_item"
    /\ om.msg = <<>>
    /\ om.ignored > 0

\* the slot watcher has just woken up for a sweep iteration
SweepBegins == pc.watcher = "sweep" /\ sw.i = 1 /\ sw.expired = <<>> /\ sw.pos = 0

\* C20: once the slot watcher is started, a sweep iteration begins again and
\* again for as long as the process runs, also after a failure of the store
\* inside close_slot_trades or of an activation inside maintain_active_slots.
C20_SweepRecursForever ==
    []<>(~bg_threads_started \/ ~Running \/ SweepBegins)

\* the store has failed inside close_slot_trades (a trade is flagged closed
\* while its stored row is still pending), and a later sweep iteration has
\* begun
C20_Witness_SweepAfterFailure ==
    /\ bg_threads_started
    /\ Running
    /\ faults_left = 0
    /\ \E i \in 1..Len(trades) : trades[i].closed /\ db_trades[i].outcome = "pending"
    /\ SweepBegins

\* --------------------------------------------------- retry_db_op alone
\* One store operation under the retry wrapper.  The probe holds what each
\* attempt of the wrapped function does: it returns ("ok"), raises
\* sqlite3.OperationalError with "locked" in its text ("locked"), or raises
\* anything else ("other").
Outcomes == {"ok", "locked", "other"}

InitRetry ==
    /\ Running_Init
    /\ \E o \in [1..RETRIES -> Outcomes] :
         probe = [fn |-> "retry", outcomes |-> o, i |-> 0, done |-> FALSE,
                  result |-> "none", value |-> 0, attempts |-> 0, sleeps |-> 0]

\* line 33-34: except sqlite3.OperationalError, "locked" in str(e)
Retryable_any(outcome) == outcome # "ok"
Retryable(outcome) == outcome = "locked"

\* lines 30-39: one pass of `for i in range(retries)`
retry_db_op ==
    /\ probe.fn = "retry"
    /\ ~probe.done
    /\ probe.i < RETRIES
    /\ LET outcome == probe.outcomes[probe.i + 1]
           p == [probe EXCEPT !.attempts = @ + 1]
       IN probe' =
            IF outcome = "ok"
              THEN [p EXCEPT !.done = TRUE, !.result = "returned", !.value = probe.i + 1]
            ELSE IF Retryable(outcome)
              THEN IF probe.i = RETRIES - 1
                     THEN [p EXCEPT !.done = TRUE, !.result = "raised_" \o outcome]
                     ELSE [p EXCEPT !.i = @ + 1, !.sleeps = @ + 1]
              ELSE [p EXCEPT !.done = TRUE, !.result = "raised_" \o outcome]
    /\ UNCHANGED <<now, slotVars, prices, mapVars, tradeVars, wsVars,
                   bg_threads_started, faults_left, pc, om, sw, mt>>

NextRetry == retry_db_op

SpecRetry == InitRetry /\ [][NextRetry]_vars

\* the first attempt that does not end on the lock-busy error (RETRIES + 1
\* when every attempt does)
FirstNotLocked(o) ==
    IF \A k \in 1..RETRIES : o[k] = "locked"
      THEN RETRIES + 1
      ELSE CHOOSE k \in 1..RETRIES :
              o[k] # "locked" /\ \A j \in 1..(k - 1) : o[j] = "locked"

\* C21: a wrapped store operation is attempted until the first attempt that
\* does not end on lock-busy, with one delay before every further attempt and
\* never more than RETRIES attempts: it returns that attempt's result when it
\* succeeded, raises its error at once when it failed otherwise, and raises
\* lock-busy after the RETRIES-th lock-busy failure in a row.
C21_RetryOnlyOnLockBusy ==
    (probe.fn = "retry" /\ probe.done) =>
        LET k == FirstNotLocked(probe.outcomes) IN
          IF k > RETRIES
            THEN /\ probe.result = "raised_locked"
                 /\ probe.attempts = RETRIES
                 /\ probe.sleeps = RETRIES - 1
            ELSE /\ probe.attempts = k
                 /\ probe.sleeps = k - 1
                 /\ probe.outcomes[k] = "ok" =>
                       (probe.result = "returned" /\ probe.value = k)
                 /\ probe.outcomes[k] = "other" => probe.result = "raised_other"

\* the operation failed otherwise on its third attempt, after two lock-busy
\* failures, and a later attempt would have succeeded
C21_Witness_OtherErrorAfterRetries ==
    /\ probe.fn = "retry"
    /\ probe.done
    /\ probe.outcomes[1] = "locked"
    /\ probe.outcomes[2] = "locked"
    /\ probe.outcomes[3] = "other"
    /\ probe.outcomes[4] = "ok"
    /\ probe.result = "raised_other"

\* C22: a slot is appended to the active-slot set only at a moment when its
\* end time is still ahead of the current time.
C22_NoEndedSlotActivated ==
    [][Len(active_slots') > Len(active_slots) =>
          now < EndDt(active_slots'[Len(active_slots')])]_vars

\* one pass of activate_slot_trades' loop over CRYPTOS is taken
ActOpenStep == (\E th \in Threads : pc[th] = "act_open") /\ mt.c <= NumCryptos /\ mt' # mt

\* C23: one pass of the activation loop opens a trade exactly when the
\* selected entry price is positive.  For an entry price of 0 the trades, the
\* store, both token maps and the ids collected for the subscribe are left
\* alone; for a positive one (and a store that accepts the insert) one trade
\* and one stored row are added for the selected token, which enters both
\* maps and the ids to subscribe.
C23_TradeOpenedIffPositiveEntry ==
    [][ActOpenStep =>
          LET sel == mt.selections[mt.c] IN
            IF sel.entry_price <= 0
              THEN /\ trades' = trades
                   /\ db_trades' = db_trades
                   /\ token_to_label' = token_to_label
                   /\ token_to_trade' = token_to_trade
                   /\ mt'.added_tokens = mt.added_tokens
                   /\ faults_left' = faults_left
              ELSE faults_left' = faults_left =>
                   /\ Len(trades') = Len(trades) + 1
                   /\ Len(db_trades') = Len(db_trades) + 1
                   /\ trades'[Len(trades')].entry_price = sel.entry_price
                   /\ db_trades'[Len(db_trades')].token_id = sel.token_id
                   /\ DictHas(token_to_label', sel.token_id)
                   /\ DictHas(token_to_trade', sel.token_id)
                   /\ mt'.added_tokens = Append(mt.added_tokens, sel.token_id)]_vars

\* the activation loop has passed an instrument whose two quote fetches
\* failed: nothing was collected for the subscribe and the slot has no trade
C23_Witness_ZeroEntrySkipped ==
    /\ \E th \in Threads : pc[th] = "act_open"
    /\ mt.c > 1
    /\ mt.selections[1].entry_price = 0
    /\ mt.added_tokens = <<>>
    /\ TradesOfSlot(mt.slot) = {}

\* C24: whenever no close is in progress, every trade that carries the
\* terminal flag has its close persisted (the stored row is no longer
\* pending), its token is out of the subscription table and the feed is not
\* subscribed to it.
C24_ClosedTradeFullyCleaned ==
    (MainOutsideClose /\ WatcherOutsideClose) =>
        \A i \in 1..Len(trades) :
            trades[i].closed =>
               /\ db_trades[i].outcome # "pending"
               /\ ~DictHas(token_to_label, db_trades[i].token_id)
               /\ db_trades[i].token_id \notin feed_subs

\* how often slot occurs in the active-slot list
Occurrences(list, slot) == Cardinality({i \in 1..Len(list) : list[i] = slot})

\* C25: the active-slot set gains a slot only in the top-up loop of
\* maintain_active_slots and loses one only when the sweep deletes its
\* expired indices, at a moment when the current time has reached the slot's
\* end; no step of the tick handler, the connect handler, the subscribe and
\* unsubscribe operations or the discovery poll changes it.
C25_ActiveSetChangedOnlyBySchedulerSteps ==
    [][\A s \in Slots :
          /\ Occurrences(active_slots', s) > Occurrences(active_slots, s) =>
                \E th \in Threads : pc[th] = "mt_loop" /\ pc'[th] = "act_select"
          /\ Occurrences(active_slots', s) < Occurrences(active_slots, s) =>
                /\ pc.watcher = "sweep"
                /\ pc'.watcher = "mt_start"
                /\ now >= EndDt(s)]_vars

\* the sweep has just removed an ended slot for which a trade had been opened
C25_Witness_EndedSlotRemoved ==
    /\ pc.watcher = "mt_start"
    /\ \E s \in Slots :
          /\ TradesOfSlot(s) # {}
          /\ s \notin SeqToSet(active_slots)
          /\ now >= EndDt(s)

\* ------------------------------------------------ the parser's validity test
\* A slot block of the markets file as the line loop of parse_markets_file
\* leaves it in `markets`: per instrument, whether its header line was found
\* (hdr) and which of the keys "yes" / "no" got an identifier (a line
\* matching YES: \d+ or NO: \d+; "Not indexed", "Error" and an empty value do
\* not match).
BlockSlots == 1..MaxBlock
Entries == {e \in [hdr : BOOLEAN, keys : SUBSET Sides] : ~e.hdr => e.keys = {}}
Blocks == [CRYPTOS -> Entries]

\* the test without its yes / no part
ValidBlock_headers_only(markets) ==
    Cardinality({c \in CRYPTOS : markets[c].hdr}) >= NumCryptos

\* lines 103-106: len(markets) >= 4 and every instrument has "yes" and "no"
ValidBlock(markets) ==
    /\ Cardinality({c \in CRYPTOS : markets[c].hdr}) >= NumCryptos
    /\ \A c \in CRYPTOS : markets[c].hdr /\ "yes" \in markets[c].keys
                                         /\ "no" \in markets[c].keys

\* parse_markets_file on a file of blocks: the valid ones, sorted by start
parse_blocks(file) == parse_markets_file({s \in DOMAIN file : ValidBlock(file[s])})

InitParse ==
    /\ Running_Init
    /\ \E file \in [BlockSlots -> Blocks], t \in {0, MaxBlock + 1} :
         probe = [fn |-> "parse", file |-> file, t |-> t, done |-> FALSE,
                  all_slots |-> <<>>, queue |-> <<>>]

\* reload_and_rebuild_queue on that file: all_slots, then the queue
ParseAndQueue ==
    /\ probe.fn = "parse"
    /\ ~probe.done
    /\ probe' = [probe EXCEPT !.done = TRUE,
                              !.all_slots = parse_blocks(probe.file),
                              !.queue = build_slot_queue(parse_blocks(probe.file), probe.t)]
    /\ UNCHANGED <<now, slotVars, prices, mapVars, tradeVars, wsVars,
                   bg_threads_started, faults_left, pc, om, sw, mt>>

NextParse == ParseAndQueue

SpecParse == InitParse /\ [][NextParse]_vars

\* the block names every instrument with both identifiers
Complete(markets) ==
    \A c \in CRYPTOS : markets[c].hdr /\ markets[c].keys = Sides

\* C26: every slot the parser hands on, and so every slot of the queue built
\* from it, has every instrument present with both its yes and its no
\* identifier; a block that lacks any of them is in neither.
C26_QueuedSlotsComplete ==
    (probe.fn = "parse" /\ probe.done) =>
        /\ \A i \in 1..Len(probe.all_slots) : Complete(probe.file[probe.all_slots[i]])
        /\ \A i \in 1..Len(probe.queue) : Complete(probe.file[probe.queue[i]])
        /\ \A s \in BlockSlots :
              ~Complete(probe.file[s]) =>
                 /\ s \notin SeqToSet(probe.all_slots)
                 /\ s \notin SeqToSet(probe.queue)

\* a file with a complete block and a block whose instrument has a header and
\* a yes identifier but no no identifier was parsed: the queue holds the
\* first and not the second
C26_Witness_IncompleteDropped ==
    /\ probe.fn = "parse"
    /\ probe.done
    /\ probe.queue # <<>>
    /\ \E s \in BlockSlots, c \in CRYPTOS :
          /\ probe.file[s][c].hdr
          /\ probe.file[s][c].keys = {"yes"}
          /\ s \notin SeqToSet(probe.queue)

\* the handler takes up a malformed element of the batch: one that is not an
\* object, or a quote update of a tracked token whose bid is not a number
TakesUpMalformed ==
    /\ om.msg # <<>>
    /\ \/ pc.main = "om_item" /\ Head(om.msg).form = "not_object"
       \/ pc.main = "om_price" /\ Head(om.msg).form = "bad_number"
    /\ (om' # om \/ pc'.main # pc.main)

\* C27: a malformed message is dropped silently.  A text that is not JSON
\* ends the handler with prices, trades and the subscription table unchanged;
\* a malformed element of a batch is passed over the same way: no exception
\* leaves the handler (on_error is not called) and the handler goes on with
\* the rest of the batch.
C27_MalformedDroppedSilently ==
    [][/\ (pc.main = "recv" /\ msgs_left' # msgs_left /\ pc'.main = "recv") =>
             /\ prices' = prices
             /\ trades' = trades
             /\ token_to_label' = token_to_label
       /\ TakesUpMalformed =>
             /\ pc'.main # "on_error"
             /\ om'.msg = Tail(om.msg)
             /\ prices' = prices
             /\ trades' = trades
             /\ token_to_label' = token_to_label]_vars

\* --------------------------------------- quote fetches and side selection
\* What the quote endpoint does with one request: it answers a price ("ok"),
\* the transfer fails ("transport"), the status is an error ("status"), or
\* the body cannot be read as a number ("body").
Responses ==
    [kind : {"ok"}, price : Quotes] \cup [kind : {"transport", "status", "body"}, price : {0}]

\* a failed fetch answers a price of its own
fetch_price_default_one(resp) == IF resp.kind = "ok" THEN resp.price ELSE 1

\* lines 149-162: one request; every exception ends in `return 0.0`
fetch_price(resp) == IF resp.kind = "ok" THEN resp.price ELSE 0

InitFetch ==
    /\ Running_Init
    /\ \E s \in Slots, c \in CRYPTOS, y \in Responses, n \in Responses :
         probe = [fn |-> "fetch", slot |-> s, crypto |-> c,
                  yes_resp |-> y, no_resp |-> n, requests |-> 0, done |-> FALSE,
                  yes_price |-> 0, no_price |-> 0, out |-> Selection(s, c, 0, 0)]

\* lines 176-206 for one instrument: the two fetches, then the choice
FetchAndSelect ==
    /\ probe.fn = "fetch"
    /\ ~probe.done
    /\ LET y == fetch_price(probe.yes_resp)
           n == fetch_price(probe.no_resp)
       IN probe' = [probe EXCEPT !.done = TRUE, !.requests = 2,
                                 !.yes_price = y, !.no_price = n,
                                 !.out = Selection(probe.slot, probe.crypto, y, n)]
    /\ UNCHANGED <<now, slotVars, prices, mapVars, tradeVars, wsVars,
                   bg_threads_started, faults_left, pc, om, sw, mt>>

NextFetch == FetchAndSelect

SpecFetch == InitFetch /\ [][NextFetch]_vars

\* C28: a fetch answers the endpoint's price, or 0 when the request failed in
\* any way, with one request per side; and the side whose fetch failed is the
\* selected one only when the other side's price is <= 0 as well.
C28_FailedFetchIsZeroAndNotPreferred ==
    (probe.fn = "fetch" /\ probe.done) =>
        /\ probe.requests = 2
        /\ probe.yes_price = (IF probe.yes_resp.kind = "ok" THEN probe.yes_resp.price ELSE 0)
        /\ probe.no_price = (IF probe.no_resp.kind = "ok" THEN probe.no_resp.price ELSE 0)
        /\ (probe.out.side = "YES" /\ probe.yes_resp.kind # "ok") => probe.no_price <= 0
        /\ (probe.out.side = "NO" /\ probe.no_resp.kind # "ok") => probe.yes_price <= 0

\* the yes fetch failed on its status, the no fetch answered a positive
\* price: the no side was selected at that price
C28_Witness_OtherSideChosen ==
    /\ probe.fn = "fetch"
    /\ probe.done
    /\ probe.yes_resp.kind = "status"
    /\ probe.no_resp.kind = "ok"
    /\ probe.no_resp.price > 0
    /\ probe.out.side = "NO"
    /\ probe.out.entry_price = probe.no_resp.price

\* C29: when the sweep closes a trade as expired while no message is being
\* handled, and a quote update was delivered for the trade's token while it
\* was tracked, the exit price it takes is the best bid of the latest such
\* update; and that price is the one it persists.
C29_ExpiredAtLastDeliveredBid ==
    [][/\ (/\ pc.watcher = "cs_set"
           /\ pc'.watcher = "cs_close"
           /\ MainOutsideClose
           /\ db_trades[sw.trade].delivered # 0)
             => sw'.last_bid = db_trades[sw.trade].delivered
       /\ (pc.watcher = "cs_close" /\ pc'.watcher = "cs_iter")
             => /\ db_trades'[sw.trade].exit_price = sw.last_bid
                /\ db_trades'[sw.trade].exit_reason = "slot_expired"]_vars

\* the slots of the source that start strictly after t
StrictlyFuture(file, t) == {s \in file : StartDt(s) > t}

\* out lists, in ascending order of start, the n earliest slots of S
EarliestOf(out, S, n) ==
    /\ Len(out) = n
    /\ \A i \in 1..Len(out) : out[i] \in S
    /\ \A i \in 1..Len(out), j \in 1..Len(out) : i < j => StartDt(out[i]) < StartDt(out[j])
    /\ \A s \in S : s \notin SeqToSet(out) =>
          \A i \in 1..Len(out) : StartDt(out[i]) < StartDt(s)

\* out lists, in ascending order of start, the n latest slots of S
LatestOf(out, S, n) ==
    /\ Len(out) = n
    /\ \A i \in 1..Len(out) : out[i] \in S
    /\ \A i \in 1..Len(out), j \in 1..Len(out) : i < j => StartDt(out[i]) < StartDt(out[j])
    /\ \A s \in S : s \notin SeqToSet(out) =>
          \A i \in 1..Len(out) : StartDt(s) < StartDt(out[i])

FileOffers(t, file) ==
    {{s \in FileSlots : t + 1 <= s /\ s <= t + COUNT /\ s \notin file /\ s <= k} :
        k \in 0..MaxFileSlot}

QueueTick == TickUpTo(MaxFileSlot)
QueueStartup == StartupFrom(FileOffers(now, {}))
QueueDiscover == DiscoverFrom(FileOffers(now, markets_file))

NextQueue ==
    \/ QueueTick
    \/ QueueStartup
    \/ QueueDiscover
    \/ ConnectOk
    \/ OnOpen
    \/ MaintainStep("main")
    \/ WatcherThread

SpecQueue == Init /\ [][NextQueue]_vars

\* ascending by start time
SortedByStart(queue) ==
    \A i \in 1..Len(queue), j \in 1..Len(queue) :
        i < j => StartDt(queue[i]) <= StartDt(queue[j])

\* a top-up is at its start (line 490) in some thread
TopUpStarts == \E th \in Threads : pc[th] = "mt_start" /\ pc'[th] = "mt_loop"

\* C31: in every reachable state the slot queue holds at most WINDOW_SIZE
\* slots and is sorted ascending by start time; the queue changes only by a
\* pop of its first (earliest-starting) slot, by the build at startup, or by a
\* refill from the source at the start of a top-up that found it empty.
C31_QueueBoundedSortedRefilledWhenEmpty ==
    /\ [](Len(slot_queue) <= WINDOW_SIZE /\ SortedByStart(slot_queue))
    /\ [][slot_queue' # slot_queue =>
            \/ /\ slot_queue # <<>>
               /\ slot_queue' = Tail(slot_queue)
               /\ \A i \in 1..Len(slot_queue) :
                      StartDt(Head(slot_queue)) <= StartDt(slot_queue[i])
            \/ /\ slot_queue = <<>>
               /\ (TopUpStarts \/ pc.main = "startup")]_vars

\* the slot watcher's top-up found the queue empty and has refilled it to the
\* full window, from a source that holds more slots than the window, after
\* trades were opened for slots popped from the queue before
C31_Witness_RefilledToWindow ==
    /\ pc.watcher = "mt_loop"
    /\ mt.now = now
    /\ Len(slot_queue) = WINDOW_SIZE
    /\ slot_queue = build_slot_queue(all_slots, now)
    /\ Cardinality(markets_file) > WINDOW_SIZE
    /\ Len(db_trades) > 0

\* ------------------------------------- one slot activation applied on its own
\* activate_slot_trades for a slot of MaxInstr instruments, from the
\* selections of line 395: the loop over the instruments (a store call may
\* raise and end the activation), then the subscribe.  probe notes the trades
\* opened, the send_subscribe calls made and the payloads put on the wire.
Instruments == 1..MaxInstr
EntryPrices == {0, 55, 60}

InitActivate ==
    /\ Running_Init
    /\ \E entry \in [Instruments -> EntryPrices], side \in [Instruments -> Sides],
          conn \in BOOLEAN :
         probe = [fn |-> "activate",
                  selections |-> [c \in Instruments |->
                                    [token_id |-> <<1, c, side[c]>>,
                                     entry_price |-> entry[c]]],
                  connected |-> conn, c |-> 1, phase |-> "loop",
                  added_tokens |-> <<>>, opened |-> <<>>,
                  calls |-> <<>>, sent |-> <<>>]

\* lines 402-442: one iteration of the loop over the instruments
ActivateOpen ==
    /\ probe.fn = "activate"
    /\ probe.phase = "loop"
    /\ probe.c <= MaxInstr
    /\ LET sel == probe.selections[probe.c] IN
       IF SkipsEntry(sel.entry_price)
         THEN probe' = [probe EXCEPT !.c = probe.c + 1]
         ELSE \/ probe' = [probe EXCEPT
                              !.c = probe.c + 1,
                              !.opened = Append(probe.opened, sel.token_id),
                              !.added_tokens = Append(probe.added_tokens, sel.token_id)]
              \/ probe' = [probe EXCEPT !.phase = "raised"]
    /\ UNCHANGED <<now, slotVars, prices, mapVars, tradeVars, wsVars,
                   bg_threads_started, faults_left, pc, om, sw, mt>>

\* lines 444-447: the subscribe; send_subscribe puts a payload on the wire
\* only when the socket is connected (lines 245-247)
ActivateSubscribe ==
    /\ probe.fn = "activate"
    /\ probe.phase = "loop"
    /\ probe.c > MaxInstr
    /\ LET calls == SubscribeCalls(probe.added_tokens) IN
       probe' = [probe EXCEPT !.phase = "done",
                              !.calls = calls,
                              !.sent = IF probe.connected
                                         THEN SelectSeq(calls, LAMBDA ids : ids # <<>>)
                                         ELSE <<>>]
    /\ UNCHANGED <<now, slotVars, prices, mapVars, tradeVars, wsVars,
                   bg_threads_started, faults_left, pc, om, sw, mt>>

NextActivate ==
    \/ ActivateOpen
    \/ ActivateSubscribe

SpecActivate == InitActivate /\ [][NextActivate]_vars

\* the instruments of a token list ascend
InInstrumentOrder(ids) ==
    \A i \in 1..Len(ids), j \in 1..Len(ids) : i < j => ids[i][2] < ids[j][2]

\* C32: a slot activation makes at most one subscribe call; when it returns,
\* it has made none if it opened no trade, and otherwise exactly one whose id
\* list is the ids of the trades it opened, in instrument order; what goes
\* on the wire is that one list or nothing; an activation ended by an
\* exception has subscribed nothing.
C32_OneBatchedSubscribePerActivation ==
    probe.fn = "activate" =>
        /\ Len(probe.calls) <= 1
        /\ Len(probe.sent) <= 1
        /\ InInstrumentOrder(probe.opened)
        /\ probe.phase = "done" =>
              /\ probe.opened = <<>> => probe.calls = <<>>
              /\ probe.opened # <<>> => probe.calls = <<probe.opened>>
              /\ probe.sent = IF probe.connected THEN probe.calls ELSE <<>>
        /\ probe.phase # "done" => (probe.calls = <<>> /\ probe.sent = <<>>)

\* an activation over a connected socket opened trades for two or more
\* instruments, skipped one with entry price 0, and returned
C32_Witness_TwoOpenedOneSkipped ==
    /\ probe.fn = "activate"
    /\ probe.phase = "done"
    /\ probe.connected
    /\ Len(probe.opened) >= 2
    /\ Len(probe.opened) < MaxInstr
    /\ probe.sent = <<probe.opened>>

\* maintain_active_slots returns normally in thread th
TopUpReturns(th) == pc[th] = "mt_loop" /\ pc'[th] = AfterMaintain(th)

\* the thread th pops a slot from the queue
TopUpPops(th) == pc[th] = "mt_loop" /\ slot_queue' # slot_queue

\* C33: when a top-up returns normally, the active-slot set holds exactly
\* MAX_CONCURRENT_SLOTS slots or the slot queue is empty; a top-up returns
\* normally only from its loop test; every slot it pops is either skipped
\* with an end time at or before the time the top-up took, or appended to
\* the active-slot set and handed to activate_slot_trades, and the top-up
\* gets back to its loop only when that activation has gone through all
\* instruments and subscribed.
C33_TopUpFillsOrDrains ==
    [][\A th \in Threads :
          /\ TopUpReturns(th) =>
                /\ (Len(active_slots') = MAX_CONCURRENT_SLOTS \/ slot_queue' = <<>>)
                /\ \A k \in 1..Len(mt.popped) :
                      \/ EndDt(mt.popped[k]) <= mt.now
                      \/ mt.popped[k] \in SeqToSet(active_slots')
          /\ (pc[th] \in {"mt_start", "act_select", "act_open"}
                  /\ pc'[th] # pc[th])
                => pc'[th] \in {"mt_loop", "act_open", AfterRefillError(th)}
          /\ TopUpPops(th) =>
                /\ slot_queue' = Tail(slot_queue)
                /\ \/ /\ EndDt(Head(slot_queue)) <= mt.now
                      /\ active_slots' = active_slots
                      /\ pc'[th] = "mt_loop"
                   \/ /\ active_slots' = Append(active_slots, Head(slot_queue))
                      /\ mt'.slot = Head(slot_queue)
                      /\ pc'[th] = "act_select"
          /\ (pc[th] = "act_open" /\ pc'[th] = "mt_loop")
                => (mt.c > NumCryptos /\ mt'.added)]_vars

\* the slot watcher's top-up is at its loop test for the last time: it has
\* activated a slot, the loop will not continue, and a slot of the source
\* with an end time at or before the time the top-up took was popped and
\* skipped
C33_Witness_SkippedOneActivatedOne ==
    /\ pc.watcher = "mt_loop"
    /\ mt.added
    /\ ~KeepsFilling(active_slots, slot_queue)
    /\ \E j \in 1..Len(mt.popped), k \in 1..Len(mt.popped) :
          /\ EndDt(mt.popped[j]) <= mt.now
          /\ mt.popped[j] \notin SeqToSet(active_slots)
          /\ EndDt(mt.popped[k]) > mt.now
          /\ mt.popped[k] \in SeqToSet(active_slots)

\* what a trade is created with, in memory and in the store
TermsInMemory(trade) ==
    <<trade.trade_id, trade.crypto, trade.side, trade.entry_price,
      trade.limit_sell, trade.shares, trade.slot_label>>
TermsInStore(row) ==
    <<row.asset, row.side_chosen, row.token_id, row.entry_price,
      row.limit_sell_price, row.shares, row.slot_label>>

\* C34: once a trade is opened, no step of any thread (tick, limit close,
\* sweep, later activation) changes its entry price, target price, position
\* size, side, instrument or slot label, in its in-memory record or in its
\* row of the store; no trade record or row ever disappears; and the target
\* is the entry price plus LIMIT_OFFSET in both.
C34_TradeTermsFixedAtCreation ==
    /\ [](\A i \in 1..Len(trades) :
             /\ trades[i].limit_sell = trades[i].entry_price + LIMIT_OFFSET
             /\ db_trades[i].limit_sell_price = db_trades[i].entry_price + LIMIT_OFFSET
             /\ db_trades[i].entry_price = trades[i].entry_price)
    /\ [][/\ Len(trades') >= Len(trades)
          /\ Len(db_trades') >= Len(db_trades)
          /\ \A i \in 1..Len(trades) :
                TermsInMemory(trades'[i]) = TermsInMemory(trades[i])
          /\ \A i \in 1..Len(db_trades) :
                TermsInStore(db_trades'[i]) = TermsInStore(db_trades[i])]_vars

\* a trade has had a tick recorded that moved its excursion statistics and
\* was then closed by the sweep at a price other than its entry price
C34_Witness_TickedThenExpired ==
    \E i \in 1..Len(trades) :
        /\ trades[i].closed
        /\ db_trades[i].num_price_updates > 0
        /\ db_trades[i].min_price < db_trades[i].entry_price
        /\ db_trades[i].exit_reason = "slot_expired"
        /\ db_trades[i].exit_price # db_trades[i].entry_price

\* the positions of main inside the while True loop of step 4
StreamLabels == {"ws_connect", "ws_wait", "on_open", "recv", "on_error"} \cup OmLabels

\* C35: whenever run_forever is over (the connection dropped, or it never
\* came up), main is at its fixed sleep and then makes a new connection
\* attempt, every time; once main is in the connection loop it never leaves
\* it, so the process never ends because of the stream.
C35_ReconnectsForever ==
    /\ (pc.main = "ws_wait") ~> (pc.main = "ws_connect")
    /\ [][/\ pc.main \in StreamLabels => pc'.main \in StreamLabels
          /\ (connected /\ ~connected') => pc'.main = "ws_wait"
          /\ (pc.main = "ws_connect" /\ pc'.main # "ws_connect")
                => pc'.main \in {"on_open", "ws_wait"}
          /\ (pc.main = "ws_wait" /\ pc'.main # "ws_wait")
                => pc'.main = "ws_connect"]_vars

\* main is at a new connection attempt after an established connection,
\* on which the background threads were started, has dropped
C35_Witness_RetryAfterDrop ==
    /\ pc.main = "ws_connect"
    /\ ~connected
    /\ bg_threads_started

\* close_trade has just closed the Open trade i
FirstClose(i) == db_trades[i].closes = 0 /\ db_trades'[i].closes = 1

\* C36: the equity_after that a close_trade of an Open trade stores (and
\* returns) equals get_current_equity() evaluated right after that close,
\* in whatever order the trades that are open at the same time are closed.
C36_EquityAfterIsCurrentEquity ==
    [][\A i \in 1..Len(db_trades) :
          FirstClose(i) =>
              db_trades'[i].equity_after = get_current_equity(db_trades')]_vars

\* C37: whenever neither thread is inside a close, every trade whose
\* in-memory terminal flag is set has a closing record in the store (its
\* outcome is no longer pending).
C37_FlaggedTradeIsClosedInStore ==
    (MainOutsideClose /\ WatcherOutsideClose) =>
        \A i \in 1..Len(trades) :
            trades[i].closed => db_trades[i].outcome # "pending"

ActivationLabels == {"act_select", "act_open"}

\* the activation running in thread th ends normally / by an exception
ActivationCompletes(th) == pc[th] = "act_open" /\ pc'[th] = "mt_loop"
ActivationFails(th) ==
    pc[th] \in ActivationLabels /\ pc'[th] \notin ActivationLabels \cup {"mt_loop"}

\* every instrument of the activated slot with a non-zero entry price has a
\* trade of that slot at that price
OpenedAllSelected(slot, selections) ==
    \A c \in CRYPTOS :
        ~SkipsEntry(selections[c].entry_price) =>
            \E i \in TradesOfSlot(slot) :
                /\ trades[i].crypto = c
                /\ trades[i].entry_price = selections[c].entry_price
                /\ db_trades[i].token_id = selections[c].token_id

\* C38: an activation that completes has opened a trade for every instrument
\* of its slot with a non-zero entry price; and when an activation fails and
\* the process goes on, its slot is not left in the active-slot set.
C38_ActiveSlotsAreFullyActivated ==
    [][\A th \in Threads :
          /\ ActivationCompletes(th) => OpenedAllSelected(mt.slot, mt.selections)
          /\ (ActivationFails(th) /\ pc'.main # "crashed")
                => mt.slot \notin SeqToSet(active_slots')]_vars

MaintainLabels == {"mt_start", "mt_loop"} \cup ActivationLabels

\* the background threads are started at most once: the flag is never reset
\* and the threads leave their initial position only in the step that sets it
StartedAtMostOnce ==
    /\ bg_threads_started => bg_threads_started'
    /\ (pc.watcher = "off" /\ pc'.watcher # "off")
          => (~bg_threads_started /\ bg_threads_started' /\ pc.main = "on_open")
    /\ (pc.fetcher = "off" /\ pc'.fetcher # "off")
          => (~bg_threads_started /\ bg_threads_started' /\ pc.main = "on_open")
    /\ pc.watcher # "off" => pc'.watcher # "off"

\* main is never inside a top-up once the slot watcher runs
OneTopUpAtATime == ~(pc.main \in MaintainLabels /\ pc.watcher # "off")

\* C39: the slot watcher and the discovery poll are started exactly once, by
\* the connect handler of the first connection that is established: the
\* flag is never reset, the threads are started only in the step that sets
\* it, every connect handler leaves them started, and main is never inside
\* a top-up while the slot watcher exists.
C39_BackgroundThreadsStartedOnFirstConnect ==
    /\ []OneTopUpAtATime
    /\ [][/\ StartedAtMostOnce
          /\ (pc.main = "on_open" /\ pc'.main # "on_open")
                => (bg_threads_started' /\ pc'.watcher # "off" /\ pc'.fetcher # "off")]_vars
====
